---- MODULE Spec2Model ----
(***************************************************************************)
(* Model of the asset pack unpacker (src/__init__.py): the container       *)
(* codec run by AssetPack.__init__, the AssetPack operations, extraction   *)
(* to a filesystem, extract_tozip and StreamingAssetPack.                  *)
(*                                                                         *)
(* Bytes are numbers 0..255; a buffer is a sequence of bytes.  An asset    *)
(* path is kept as the sequence of its '/'-separated segments, which is    *)
(* what key.split('/') yields, so that key + '/' + file is Append(key,     *)
(* file).  Python dicts are insertion-ordered: a dict is a sequence of     *)
(* [key, val] records with distinct keys.                                  *)
(***************************************************************************)
EXTENDS Integers, Sequences, FiniteSets, TLC

\* Bind(e, F) is LET x == e IN F(x) with e evaluated once, before F.
Bind(e, F(_)) == CHOOSE out \in {F(x) : x \in {e}} : TRUE

\* ------------------------------------------------------------------ bytes

\* b'!PACKED\n'
Marker == <<33, 80, 65, 67, 75, 69, 68, 10>>

\* bytes.startswith
StartsWith(s, p) == Len(s) >= Len(p) /\ SubSeq(s, 1, Len(p)) = p

\* p occurs somewhere in s (used by a mutant of the header check)
RECURSIVE Contains(_, _)
Contains(s, p) ==
  IF Len(s) < Len(p) THEN FALSE
  ELSE StartsWith(s, p) \/ Contains(Tail(s), p)

\* bytes.replace(p, b''): every non-overlapping occurrence, left to right
RECURSIVE Replace(_, _)
Replace(s, p) ==
  IF Len(s) < Len(p) THEN s
  ELSE IF StartsWith(s, p)
    THEN Bind(SubSeq(s, Len(p) + 1, Len(s)), LAMBDA r : Replace(r, p))
  ELSE <<Head(s)>> \o Replace(Tail(s), p)

\* content.replace(b'!PACKED\n', b'')
StripMarker(content) == Replace(content, Marker)

\* mutant of HeaderOk: the marker anywhere in the buffer is accepted
HeaderAnywhere(content) == Contains(content, Marker)

\* content.startswith(b'!PACKED\n')
HeaderOk(content) == StartsWith(content, Marker)

\* ------------------------------------------------------------------- gzip
\* gzip.decompress on a stream of stored (uncompressed) blocks: a magic
\* header, the data as it is, and a trailer of a checksum and the length
\* (each kept to one byte here).  A stream that lost bytes fails the trailer
\* check, as a real stream fails its CRC32/ISIZE check.

GzMagic == <<31, 139>>

RECURSIVE ByteSum(_)
ByteSum(s) == IF s = <<>> THEN 0 ELSE (Head(s) + ByteSum(Tail(s))) % 256

GzipCompress(data) == GzMagic \o data \o <<ByteSum(data), Len(data) % 256>>

GzipBody(c) == SubSeq(c, 3, Len(c) - 2)

GzipOk(c) ==
  /\ Len(c) >= 4
  /\ SubSeq(c, 1, 2) = GzMagic
  /\ Bind(GzipBody(c), LAMBDA body : /\ c[Len(c) - 1] = ByteSum(body)
                                     /\ c[Len(c)] = Len(body) % 256)

\* --------------------------------------------------------------- dicts

DictKeys(d) == [i \in 1..Len(d) |-> d[i].key]

DictKeySet(d) == {d[i].key : i \in 1..Len(d)}

DictHas(d, k) == k \in DictKeySet(d)

\* d[k]; the caller checks DictHas first (a miss is a KeyError)
DictGet(d, k) == d[CHOOSE i \in 1..Len(d) : d[i].key = k].val

\* d[k] = v while a dict display is evaluated: a repeated key keeps its
\* position and takes the later value
DictSet(d, k, v) ==
  IF DictHas(d, k)
  THEN [i \in 1..Len(d) |-> IF d[i].key = k THEN [key |-> k, val |-> v] ELSE d[i]]
  ELSE Append(d, [key |-> k, val |-> v])

\* ------------------------------------------------- the serialized document
\* The decompressed payload is the text of a dict display with the keys
\* 'tree' and 'dirinfo'.  The text is modelled byte for byte by a small
\* literal grammar with the same values:
\*   text    ::= n field^n
\*   field   ::= 116 n (names bytes)^n          'tree':    {path: bytes}
\*             | 100 n (names names names)^n    'dirinfo': {path: {files, dirs}}
\*   names   ::= n code^n                       bytes ::= n byte^n
\* and eval() is the parser of that grammar.

NameCode == [n \in {"", "a", "b", "c", "d", "g"} |->
               CASE n = ""  -> 39
                 [] n = "a" -> 97
                 [] n = "b" -> 98
                 [] n = "c" -> 99
                 [] n = "d" -> 100
                 [] n = "g" -> 103]

NameOf(code) == CHOOSE n \in DOMAIN NameCode : NameCode[n] = code

IsNameCode(code) == \E n \in DOMAIN NameCode : NameCode[n] = code

ParseFail == [ok |-> FALSE, v |-> <<>>, p |-> 0]

\* n names from position p on
ParseNames(t, p, n) ==
  IF p + n - 1 > Len(t) THEN ParseFail
  ELSE IF \E i \in p..(p + n - 1) : ~IsNameCode(t[i]) THEN ParseFail
  ELSE [ok |-> TRUE, v |-> [i \in 1..n |-> NameOf(t[p + i - 1])], p |-> p + n]

ParseNameList(t, p) ==
  IF p > Len(t) THEN ParseFail ELSE ParseNames(t, p + 1, t[p])

ParseBytes(t, p) ==
  IF p > Len(t) THEN ParseFail
  ELSE IF p + t[p] > Len(t) THEN ParseFail
  ELSE [ok |-> TRUE, v |-> SubSeq(t, p + 1, p + t[p]), p |-> p + t[p] + 1]

\* one item of the tree dict, added to acc
ParseTreeEntry(t, p, acc) ==
  Bind(ParseNameList(t, p), LAMBDA k :
    IF ~k.ok THEN ParseFail
    ELSE Bind(ParseBytes(t, k.p), LAMBDA b :
           IF ~b.ok THEN ParseFail
           ELSE [ok |-> TRUE, v |-> DictSet(acc, k.v, b.v), p |-> b.p]))

\* one item of the dirinfo dict, added to acc
ParseDirEntry(t, p, acc) ==
  Bind(ParseNameList(t, p), LAMBDA k :
    IF ~k.ok THEN ParseFail
    ELSE Bind(ParseNameList(t, k.p), LAMBDA f :
           IF ~f.ok THEN ParseFail
           ELSE Bind(ParseNameList(t, f.p), LAMBDA d :
                  IF ~d.ok THEN ParseFail
                  ELSE [ok |-> TRUE,
                        v  |-> DictSet(acc, k.v, [files |-> f.v, dirs |-> d.v]),
                        p  |-> d.p])))

\* n items of the dict of the field tagged `tag`
RECURSIVE ParseEntries(_, _, _, _, _)
ParseEntries(tag, t, p, n, acc) ==
  IF n = 0 THEN [ok |-> TRUE, v |-> acc, p |-> p]
  ELSE Bind(IF tag = 116 THEN ParseTreeEntry(t, p, acc) ELSE ParseDirEntry(t, p, acc),
            LAMBDA r : IF ~r.ok THEN ParseFail
                       ELSE Bind(n - 1, LAMBDA m : ParseEntries(tag, t, r.p, m, r.v)))

\* one field of the top-level dict, added to acc
ParseField(t, p, acc) ==
  IF p + 1 > Len(t) THEN ParseFail
  ELSE IF t[p] \notin {116, 100} THEN ParseFail
  ELSE Bind(ParseEntries(t[p], t, p + 2, t[p + 1], <<>>), LAMBDA r :
         IF ~r.ok THEN ParseFail
         ELSE [ok |-> TRUE,
               v  |-> DictSet(acc, IF t[p] = 116 THEN "tree" ELSE "dirinfo", r.v),
               p  |-> r.p])

RECURSIVE ParseFields(_, _, _, _)
ParseFields(t, p, n, acc) ==
  IF n = 0 THEN [ok |-> TRUE, v |-> acc, p |-> p]
  ELSE Bind(ParseField(t, p, acc), LAMBDA r :
         IF ~r.ok THEN ParseFail
         ELSE Bind(n - 1, LAMBDA m : ParseFields(t, r.p, m, r.v)))

\* eval(text): [ok, v] with v the top-level dict
Eval(t) ==
  IF t = <<>> THEN ParseFail
  ELSE Bind(ParseFields(t, 2, t[1], <<>>), LAMBDA r :
         IF r.ok /\ r.p = Len(t) + 1 THEN r ELSE ParseFail)

\* The writer of the format (the packer is a separate program): the text
\* whose eval() is the document.
SerNames(ns) == <<Len(ns)>> \o [i \in 1..Len(ns) |-> NameCode[ns[i]]]

SerBytes(b) == <<Len(b)>> \o b

RECURSIVE SerTreeEntries(_)
SerTreeEntries(d) ==
  IF d = <<>> THEN <<>>
  ELSE SerNames(d[1].key) \o SerBytes(d[1].val) \o SerTreeEntries(Tail(d))

RECURSIVE SerDirEntries(_)
SerDirEntries(d) ==
  IF d = <<>> THEN <<>>
  ELSE SerNames(d[1].key) \o SerNames(d[1].val.files) \o SerNames(d[1].val.dirs)
         \o SerDirEntries(Tail(d))

RECURSIVE SerFields(_)
SerFields(doc) ==
  IF doc = <<>> THEN <<>>
  ELSE (IF doc[1].key = "tree"
          THEN <<116, Len(doc[1].val)>> \o SerTreeEntries(doc[1].val)
          ELSE <<100, Len(doc[1].val)>> \o SerDirEntries(doc[1].val))
       \o SerFields(Tail(doc))

Serialize(doc) == <<Len(doc)>> \o SerFields(doc)

\* marker + compress(serialize(doc))
Pack(doc) == Marker \o GzipCompress(Serialize(doc))

\* ------------------------------------------------------ AssetPack.__init__

\* the object before __init__ runs: attrs names the attributes that an
\* assignment has set, the other fields hold no value yet
NewObject == [attrs |-> {}, path |-> "", tree |-> <<>>, dirinfo |-> <<>>]

\* what the codec hands back when it raises before line 41
Raised(status, steps) ==
  [status |-> status, steps |-> steps, set |-> {}, tree |-> <<>>, dirinfo |-> <<>>]

\* lines 39-42 on the evaluated dict
TakeFields(ev) ==
  IF ~ev.ok THEN Raised("SyntaxError", <<"header", "decompress", "eval">>)
  ELSE IF ~DictHas(ev.v, "tree")
    THEN Raised("KeyError", <<"header", "decompress", "eval">>)
  ELSE IF ~DictHas(ev.v, "dirinfo")
    THEN [status |-> "KeyError",
          steps |-> <<"header", "decompress", "eval", "tree">>,
          set |-> {"tree"}, tree |-> DictGet(ev.v, "tree"), dirinfo |-> <<>>]
  ELSE [status |-> "ok",
        steps |-> <<"header", "decompress", "eval", "tree", "dirinfo">>,
        set |-> {"tree", "dirinfo"},
        tree |-> DictGet(ev.v, "tree"), dirinfo |-> DictGet(ev.v, "dirinfo")]

\* lines 34-42 on the bytes read: the error raised, the steps reached and
\* the values assigned (set) before it was raised
Decode(content) ==
  IF ~HeaderOk(content) THEN Raised("MissingHeaderException", <<"header">>)
  ELSE Bind(StripMarker(content), LAMBDA stripped :
         IF ~GzipOk(stripped) THEN Raised("BadGzipFile", <<"header", "decompress">>)
         ELSE Bind(GzipBody(stripped), LAMBDA text :
                Bind(Eval(text), LAMBDA ev : TakeFields(ev))))

\* lines 41-42: each assignment that ran replaces its attribute
AssignDecoded(self, d) ==
  [self EXCEPT !.attrs   = @ \cup d.set,
               !.tree    = IF "tree" \in d.set THEN d.tree ELSE @,
               !.dirinfo = IF "dirinfo" \in d.set THEN d.dirinfo ELSE @]

\* __init__(self, file) with the source file holding the bytes `stored`.
\* file is [kind |-> "path", name, data], [kind |-> "reader", name, data]
\* (an open binary file, which has a name) or [kind |-> "bytesio", name,
\* data] (a BytesIO holding data, which has no name attribute).  Lines
\* 26-32, then the codec.
RunInit(self, file, stored) ==
  IF file.kind = "bytesio"
  THEN [self |-> self, status |-> "AttributeError", steps |-> <<>>,
        content |-> file.data]
  ELSE Bind(Decode(stored), LAMBDA d :
         [self    |-> AssignDecoded(
                        [self EXCEPT !.attrs = @ \cup {"path"}, !.path = file.name], d),
          status  |-> d.status,
          steps   |-> d.steps,
          content |-> stored])

\* ------------------------------------------------------------- filesystem
\* fs maps each existing path (a sequence of names) to a directory or to a
\* file with its bytes.

DirEntry == [kind |-> "dir", data |-> <<>>]

FileEntry(data) == [kind |-> "file", data |-> data]

IsDir(f, p) == p \in DOMAIN f /\ f[p].kind = "dir"

IsFile(f, p) == p \in DOMAIN f /\ f[p].kind = "file"

Parent(p) == SubSeq(p, 1, Len(p) - 1)

IsUnder(p, root) == Len(p) >= Len(root) /\ SubSeq(p, 1, Len(root)) = root

FsPut(f, p, e) == [q \in DOMAIN f \cup {p} |-> IF q = p THEN e ELSE f[q]]

\* path.join(epath, *segs): an empty segment adds no component
Join(epath, segs) == epath \o SelectSeq(segs, LAMBDA x : x # "")

\* makedirs(p, exist_ok=True)
MakeDirs(f, p) ==
  LET prefixes == {SubSeq(p, 1, i) : i \in 1..Len(p)}
  IN  IF \E q \in prefixes : IsFile(f, q)
      THEN [ok |-> FALSE, fs |-> f]
      ELSE [ok |-> TRUE,
            fs |-> [q \in DOMAIN f \cup prefixes |->
                      IF q \in DOMAIN f THEN f[q] ELSE DirEntry]]

\* open(p, 'wb'): creates the file or truncates it
OpenWrite(f, p) ==
  IF IsDir(f, p) \/ ~IsDir(f, Parent(p))
  THEN [ok |-> FALSE, fs |-> f]
  ELSE [ok |-> TRUE, fs |-> FsPut(f, p, FileEntry(<<>>))]

\* shutil.rmtree
RemoveTree(f, root) == [q \in {x \in DOMAIN f : ~IsUnder(x, root)} |-> f[q]]

\* ------------------------------------------------- the AssetPack operations

\* mutant of GetFile: a missing asset reads as an empty file
GetFileOrEmpty(tree, filepath) ==
  IF DictHas(tree, filepath)
  THEN [ok |-> TRUE, data |-> DictGet(tree, filepath)]
  ELSE [ok |-> TRUE, data |-> <<>>]

\* getfile: BytesIO(self.tree[filepath]), a KeyError when the key is absent
GetFile(tree, filepath) ==
  IF DictHas(tree, filepath)
  THEN [ok |-> TRUE, data |-> DictGet(tree, filepath)]
  ELSE [ok |-> FALSE, data |-> <<>>]

\* mutant of ExportFile: the file is opened and nothing is written to it
ExportFileNoWrite(self, f, packpath, exp_path) ==
  Bind(OpenWrite(f, exp_path), LAMBDA o :
    IF ~o.ok THEN [status |-> "OSError", fs |-> f]
    ELSE IF ~GetFile(self.tree, packpath).ok THEN [status |-> "KeyError", fs |-> o.fs]
    ELSE [status |-> "ok", fs |-> o.fs])

\* exportfile: the destination is opened for writing first, then the asset
\* is looked up and its bytes written
ExportFile(self, f, packpath, exp_path) ==
  Bind(OpenWrite(f, exp_path), LAMBDA o :
    IF ~o.ok THEN [status |-> "OSError", fs |-> f]
    ELSE Bind(GetFile(self.tree, packpath), LAMBDA g :
           IF ~g.ok THEN [status |-> "KeyError", fs |-> o.fs]
           ELSE [status |-> "ok", fs |-> FsPut(o.fs, exp_path, FileEntry(g.data))]))

\* tqdm.update(k): the counter is incremented by k
TqdmUpdate(n, k) == n + k

\* The state of one extract call: the error raised ("ok" while none), the
\* filesystem, the progress bar's counter and the counter values it showed,
\* the destination paths exportfile was called on, and the number of
\* directory-index entries completed.
ExtractStart(f) ==
  [status |-> "ok", fs |-> f, n |-> 0, reports |-> <<>>, writes |-> <<>>, done |-> 0]

\* makedirs(p, exist_ok=True) within an extract call
ExtractMakeDirs(st, p) ==
  Bind(MakeDirs(st.fs, p), LAMBDA m :
    [st EXCEPT !.status = IF m.ok THEN "ok" ELSE "OSError", !.fs = m.fs])

\* lines 74-75
RECURSIVE MakeSubdirs(_, _, _, _, _)
MakeSubdirs(st, epath, key, dirs, j) ==
  IF j > Len(dirs) \/ st.status # "ok" THEN st
  ELSE Bind(ExtractMakeDirs(st, Join(epath, Append(key, dirs[j]))), LAMBDA s1 :
         Bind(j + 1, LAMBDA j1 : MakeSubdirs(s1, epath, key, dirs, j1)))

\* line 77 for one file name
ExportOne(self, st, epath, key, file) ==
  Bind(Join(epath, Append(key, file)), LAMBDA dst :
    Bind(ExportFile(self, st.fs, Append(key, file), dst), LAMBDA r :
      [st EXCEPT !.status = r.status, !.fs = r.fs, !.writes = Append(@, dst)]))

\* lines 76-77
RECURSIVE ExportFiles(_, _, _, _, _, _)
ExportFiles(self, st, epath, key, files, j) ==
  IF j > Len(files) \/ st.status # "ok" THEN st
  ELSE Bind(ExportOne(self, st, epath, key, files[j]), LAMBDA s1 :
         Bind(j + 1, LAMBDA j1 : ExportFiles(self, s1, epath, key, files, j1)))

\* line 79: update(list(keys).index(key) + 1), i being the item's position
Progress(st, i) ==
  Bind(TqdmUpdate(st.n, i), LAMBDA n1 :
    [st EXCEPT !.n = n1, !.reports = Append(@, n1), !.done = @ + 1])

\* lines 72-79 for the i-th item of the directory index
ExtractEntry(self, st, epath, i) ==
  Bind(self.dirinfo[i], LAMBDA item :
    Bind(ExtractMakeDirs(st, Join(epath, item.key)), LAMBDA s1 :
      Bind(MakeSubdirs(s1, epath, item.key, item.val.dirs, 1), LAMBDA s2 :
        Bind(ExportFiles(self, s2, epath, item.key, item.val.files, 1), LAMBDA s3 :
          IF s3.status # "ok" THEN s3 ELSE Progress(s3, i)))))

RECURSIVE ExtractEntries(_, _, _, _)
ExtractEntries(self, st, epath, i) ==
  IF i > Len(self.dirinfo) \/ st.status # "ok" THEN st
  ELSE Bind(ExtractEntry(self, st, epath, i), LAMBDA s1 :
         Bind(i + 1, LAMBDA i1 : ExtractEntries(self, s1, epath, i1)))

\* extract(epath) on the filesystem f
ExtractRun(self, f, epath) ==
  Bind(ExtractStart(f), LAMBDA st : ExtractEntries(self, st, epath, 1))

\* ---------------------------------------------------------- extract_tozip

\* the directory TemporaryDirectory(prefix='assets.packed_zipexport_') makes
TmpZip == <<"assets.packed_zipexport_">>

\* path.splitext(efile)[0] for the file names used here, and the name
\* make_archive(base, 'zip', ...) writes
ZipName == [e \in {"bundle.zip", "bundle.dat"} |-> "bundle.zip"]

\* mutant of TozipCleanup: the directory is removed only after a success
TozipCleanupOnSuccess(f, status) ==
  IF status = "ok" THEN RemoveTree(f, TmpZip) ELSE f

\* leaving the with block of line 85, whatever happened in it
TozipCleanup(f, status) == RemoveTree(f, TmpZip)

\* make_archive(stem, 'zip', tempdir) after an extract that raised nothing:
\* the archive is written as a file holding the ZIP signature, unless
\* packaging fails (zipOk)
MakeArchive(r, efile, zipOk) ==
  IF r.status # "ok" THEN [status |-> r.status, fs |-> r.fs]
  ELSE IF ~zipOk THEN [status |-> "ZipError", fs |-> r.fs]
  ELSE [status |-> "ok", fs |-> FsPut(r.fs, <<ZipName[efile]>>, FileEntry(<<80, 75>>))]

\* extract_tozip(efile): held counts what the temporary directory held when
\* the with block was left
ExtractToZip(self, f, efile, zipOk) ==
  Bind(ExtractRun(self, FsPut(f, TmpZip, DirEntry), TmpZip), LAMBDA r :
    Bind(MakeArchive(r, efile, zipOk), LAMBDA z :
      [status |-> z.status,
       run    |-> r,
       held   |-> Cardinality({q \in DOMAIN z.fs : IsUnder(q, TmpZip)}),
       fs     |-> TozipCleanup(z.fs, z.status)]))

\* ------------------------------------------------------ the archives used

Hi == <<104, 105>>

\* the scenario of the specification: a/b.txt holding "hi"
DocA ==
  << [key |-> "tree",    val |-> << [key |-> <<"a", "b">>, val |-> Hi] >>],
     [key |-> "dirinfo", val |-> << [key |-> <<"a">>,
                                     val |-> [files |-> <<"b">>, dirs |-> <<>>]] >>] >>

\* a root directory "", a directory and a subdirectory
DocB ==
  << [key |-> "tree",
      val |-> << [key |-> <<"", "g">>, val |-> <<7>>],
                 [key |-> <<"a", "b">>, val |-> <<66>>],
                 [key |-> <<"a", "c", "d">>, val |-> <<68, 68>>] >>],
     [key |-> "dirinfo",
      val |-> << [key |-> <<"">>, val |-> [files |-> <<"g">>, dirs |-> <<"a">>]],
                 [key |-> <<"a">>, val |-> [files |-> <<"b">>, dirs |-> <<"c">>]],
                 [key |-> <<"a", "c">>, val |-> [files |-> <<"d">>, dirs |-> <<>>]] >>] >>

\* the directory index names a/g, which the tree lacks
DocMissing ==
  << [key |-> "tree",
      val |-> << [key |-> <<"a", "b">>, val |-> <<77>>],
                 [key |-> <<"a", "d">>, val |-> <<78>>],
                 [key |-> <<"a", "c", "d">>, val |-> <<79>>] >>],
     [key |-> "dirinfo",
      val |-> << [key |-> <<"a">>,
                  val |-> [files |-> <<"b", "g", "d">>, dirs |-> <<"c">>]],
                 [key |-> <<"a", "c">>, val |-> [files |-> <<"d">>, dirs |-> <<>>]] >>] >>

\* a file whose bytes are the marker
DocMarker ==
  << [key |-> "tree",    val |-> << [key |-> <<"a", "b">>, val |-> Marker] >>],
     [key |-> "dirinfo", val |-> << [key |-> <<"a">>,
                                     val |-> [files |-> <<"b">>, dirs |-> <<>>]] >>] >>

\* a document without the 'dirinfo' key
DocTreeOnly ==
  << [key |-> "tree", val |-> << [key |-> <<"a", "b">>, val |-> <<84>>] >>] >>

\* the documents with both keys
FullDocs == {DocA, DocB, DocMissing, DocMarker}

\* the buffers a source may hold
Sources ==
  {Pack(d) : d \in FullDocs \cup {DocTreeOnly}}
    \cup { <<>>,                                 \* empty
           GzipCompress(Serialize(DocA)),        \* no marker
           <<0>> \o Pack(DocA),                  \* the marker at offset 1
           Marker \o <<1, 2, 3>>,                \* not a gzip stream
           Marker \o GzipCompress(<<9, 9>>) }    \* not a document

\* the buffers a BytesIO is made of
Buffers == {Pack(DocA), Pack(DocMissing), <<>>}

\* ----------------------------------------------------- StreamingAssetPack

\* the directory TemporaryDirectory(prefix='assets.packed_streaming_pack_')
\* makes
TmpStream == <<"assets.packed_streaming_pack_">>

NoStream == [state |-> "none", assetpack |-> NewObject]

\* StreamingAssetPack.__init__(file): lines 147-150.  The error raised, the
\* filesystem, the extract call's record and the object's fields.
StreamingInit(file, f, stored) ==
  Bind(RunInit(NewObject, file, stored), LAMBDA a :
    IF a.status # "ok"
    THEN [status |-> a.status, fs |-> f, acquired |-> FALSE,
          run |-> ExtractStart(f), assetpack |-> NewObject, init |-> a]
    ELSE Bind(ExtractRun(a.self, FsPut(f, TmpStream, DirEntry), TmpStream), LAMBDA r :
           [status |-> r.status, fs |-> r.fs, acquired |-> TRUE,
            run |-> r, assetpack |-> a.self, init |-> a]))

\* StreamingAssetPack.__exit__(): it calls TemporaryDirectory.__exit__
\* without the three arguments that method requires, which raises TypeError
\* before cleanup() is reached
StreamingExitRun(f) == [status |-> "TypeError", fs |-> f]

\* ------------------------------------------------------------ the program

MaxOps == 4

\* the source file's name
SrcPath == "assets.packed"

\* the directory extract is pointed at
Out == <<"out">>

\* asset paths asked for: the ones of the archives and one in none of them
AssetPaths == {<<"a", "b">>, <<"a", "c", "d">>, <<"", "g">>, <<"a", "g">>}

\* destinations exportfile is pointed at: a file that exists from the
\* start, the places extract writes to, and a place in a missing directory
Keep == <<"out", "keep">>

ExportTargets == {Keep, <<"out", "a", "b">>, <<"out", "z", "b">>}

VARIABLES
  disk,     \* the bytes of the source file
  pack,     \* the caller's AssetPack (NewObject while it holds none)
  origin,   \* the kind of source the caller's AssetPack was constructed from
  decoded,  \* <<tree, dirinfo>> of the last successful construction or reload
  fs,       \* the filesystem
  sink,     \* the progress bar of the last extract
  sp,       \* the StreamingAssetPack
  result,   \* the last call and its outcome
  ops       \* number of calls made

vars == <<disk, pack, origin, decoded, fs, sink, sp, result, ops>>

HasPack == pack.attrs # {}

Res(op, status) ==
  [op |-> op, status |-> status, kind |-> "", content |-> <<>>, steps |-> <<>>,
   val |-> <<>>, arg |-> <<>>, dest |-> <<>>, writes |-> <<>>, done |-> 0, held |-> 0]

Bar(self, r) == [total |-> Len(self.dirinfo), n |-> r.n, reports |-> r.reports]

Files(kind) ==
  IF kind = "bytesio"
  THEN {[kind |-> kind, name |-> "", data |-> b] : b \in Buffers}
  ELSE {[kind |-> kind, name |-> SrcPath, data |-> <<>>]}

Init ==
  /\ disk \in Sources
  /\ pack = NewObject
  /\ origin = ""
  /\ decoded = << <<>>, <<>> >>
  /\ fs \in {(Out :> DirEntry), (Out :> DirEntry) @@ (Keep :> FileEntry(<<1>>))}
  /\ sink = [total |-> 0, n |-> 0, reports |-> <<>>]
  /\ sp = NoStream
  /\ result = Res("", "")
  /\ ops = 0

Step == ops < MaxOps /\ ops' = ops + 1

\* another program rewrites the source file
ChangeSource ==
  /\ Step
  /\ \E b \in Sources \ {disk} : disk' = b
  /\ result' = Res("changesource", "ok")
  /\ UNCHANGED <<pack, origin, decoded, fs, sink, sp>>

\* pack = AssetPack(file)
Construct ==
  /\ Step
  /\ \E kind \in {"path", "reader", "bytesio"} : \E file \in Files(kind) :
       \E r \in {RunInit(NewObject, file, disk)} :
           /\ pack' = IF r.status = "ok" THEN r.self ELSE pack
           /\ origin' = IF r.status = "ok" THEN kind ELSE origin
           /\ decoded' = IF r.status = "ok" THEN <<r.self.tree, r.self.dirinfo>>
                         ELSE decoded
           /\ result' = [Res("construct", r.status) EXCEPT
                           !.kind = kind, !.content = r.content, !.steps = r.steps]
  /\ UNCHANGED <<disk, fs, sink, sp>>

\* pack.reload(): self.__init__(self.path)
Reload ==
  /\ Step
  /\ HasPack
  /\ \E r \in {RunInit(pack, [kind |-> "path", name |-> pack.path, data |-> <<>>], disk)} :
         /\ pack' = r.self
         /\ decoded' = IF r.status = "ok" THEN <<r.self.tree, r.self.dirinfo>>
                       ELSE decoded
         /\ result' = [Res("reload", r.status) EXCEPT
                         !.kind = origin, !.content = r.content, !.steps = r.steps]
  /\ UNCHANGED <<disk, origin, fs, sink, sp>>

\* pack.getfile(k).read()
GetFileCall ==
  /\ Step
  /\ HasPack
  /\ \E k \in AssetPaths :
       \E g \in {GetFile(pack.tree, k)} :
           result' = [Res("getfile", IF g.ok THEN "ok" ELSE "KeyError") EXCEPT
                        !.arg = k, !.val = g.data]
  /\ UNCHANGED <<disk, pack, origin, decoded, fs, sink, sp>>

\* pack.getDir()
GetDir ==
  /\ Step
  /\ HasPack
  /\ result' = [Res("getDir", "ok") EXCEPT !.val = pack.dirinfo]
  /\ UNCHANGED <<disk, pack, origin, decoded, fs, sink, sp>>

\* pack.listobjects()
ListObjects ==
  /\ Step
  /\ HasPack
  /\ result' = [Res("listobjects", "ok") EXCEPT !.val = DictKeys(pack.tree)]
  /\ UNCHANGED <<disk, pack, origin, decoded, fs, sink, sp>>

\* pack.getDirList()
GetDirList ==
  /\ Step
  /\ HasPack
  /\ result' = [Res("getDirList", "ok") EXCEPT !.val = DictKeys(pack.dirinfo)]
  /\ UNCHANGED <<disk, pack, origin, decoded, fs, sink, sp>>

\* pack.extract(Out)
Extract ==
  /\ Step
  /\ HasPack
  /\ \E r \in {ExtractRun(pack, fs, Out)} :
         /\ fs' = r.fs
         /\ sink' = Bar(pack, r)
         /\ result' = [Res("extract", r.status) EXCEPT
                         !.dest = Out, !.writes = r.writes, !.done = r.done]
  /\ UNCHANGED <<disk, pack, origin, decoded, sp>>

\* pack.exportfile(packpath, exp_path)
ExportFileCall ==
  /\ Step
  /\ HasPack
  /\ \E k \in AssetPaths : \E dst \in ExportTargets :
       \E r \in {ExportFile(pack, fs, k, dst)} :
           /\ fs' = r.fs
           /\ result' = [Res("exportfile", r.status) EXCEPT !.arg = k, !.dest = dst]
  /\ UNCHANGED <<disk, pack, origin, decoded, sink, sp>>

\* pack.extract_tozip(efile)
ExtractToZipCall ==
  /\ Step
  /\ HasPack
  /\ \E efile \in DOMAIN ZipName : \E zipOk \in BOOLEAN :
       \E r \in {ExtractToZip(pack, fs, efile, zipOk)} :
           /\ fs' = r.fs
           /\ sink' = Bar(pack, r.run)
           /\ result' = [Res("extract_tozip", r.status) EXCEPT
                           !.dest = TmpZip, !.writes = r.run.writes,
                           !.done = r.run.done, !.held = r.held]
  /\ UNCHANGED <<disk, pack, origin, decoded, sp>>

\* sp = StreamingAssetPack(file)
StreamingOpen ==
  /\ Step
  /\ sp.state = "none"
  /\ \E kind \in {"path", "reader"} : \E file \in Files(kind) :
       \E r \in {StreamingInit(file, fs, disk)} :
           /\ fs' = r.fs
           /\ sink' = IF r.acquired THEN Bar(r.assetpack, r.run) ELSE sink
           /\ sp' = IF ~r.acquired THEN sp
                    ELSE [state |-> IF r.status = "ok" THEN "open" ELSE "ctor_failed",
                          assetpack |-> r.assetpack]
           /\ result' = [Res("streaming", r.status) EXCEPT
                           !.kind = kind, !.dest = TmpStream,
                           !.content = r.init.content, !.steps = r.init.steps,
                           !.writes = r.run.writes, !.done = r.run.done]
  /\ UNCHANGED <<disk, pack, origin, decoded>>

\* with StreamingAssetPack(file) as sp: the object is constructed, and the
\* with statement then fails because the class defines no __enter__
StreamingWith ==
  /\ Step
  /\ sp.state = "none"
  /\ \E file \in Files("path") :
       \E r \in {StreamingInit(file, fs, disk)} :
           /\ fs' = r.fs
           /\ sink' = IF r.acquired THEN Bar(r.assetpack, r.run) ELSE sink
           /\ sp' = IF ~r.acquired THEN sp
                    ELSE [state |-> IF r.status = "ok" THEN "with_failed"
                                    ELSE "ctor_failed",
                          assetpack |-> r.assetpack]
           /\ result' = [Res("with", IF r.status = "ok" THEN "TypeError" ELSE r.status)
                           EXCEPT !.kind = "path", !.dest = TmpStream,
                                  !.content = r.init.content, !.steps = r.init.steps,
                                  !.writes = r.run.writes, !.done = r.run.done]
  /\ UNCHANGED <<disk, pack, origin, decoded>>

\* sp.__exit__(), the explicit close
StreamingExit ==
  /\ Step
  /\ sp.state \in {"open", "closed"}
  /\ \E r \in {StreamingExitRun(fs)} :
         /\ fs' = r.fs
         /\ result' = [Res("exit", r.status) EXCEPT !.dest = TmpStream]
  /\ sp' = [sp EXCEPT !.state = "closed"]
  /\ UNCHANGED <<disk, pack, origin, decoded, sink>>

\* the caller lets go of sp without closing it
StreamingDrop ==
  /\ Step
  /\ sp.state \in {"open", "closed"}
  /\ sp' = [sp EXCEPT !.state = "dropped"]
  /\ result' = Res("drop", "ok")
  /\ UNCHANGED <<disk, pack, origin, decoded, fs, sink>>

\* the finalizer of a TemporaryDirectory object nothing refers to any more
\* removes its directory, at a time the garbage collector chooses
TempDirFinalize ==
  /\ Step
  /\ sp.state \in {"ctor_failed", "with_failed", "dropped"}
  /\ fs' = RemoveTree(fs, TmpStream)
  /\ sp' = NoStream
  /\ result' = Res("finalize", "ok")
  /\ UNCHANGED <<disk, pack, origin, decoded, sink>>

Next ==
  \/ ChangeSource
  \/ Construct
  \/ Reload
  \/ GetFileCall
  \/ GetDir
  \/ ListObjects
  \/ GetDirList
  \/ Extract
  \/ ExportFileCall
  \/ ExtractToZipCall
  \/ StreamingOpen
  \/ StreamingWith
  \/ StreamingExit
  \/ StreamingDrop
  \/ TempDirFinalize

Spec == Init /\ [][Next]_vars

\* ------------------------------------------------------------ properties

Range(q) == {q[i] : i \in 1..Len(q)}

\* every file name of the directory index has its key in the tree
Consistent(self) ==
  \A i \in 1..Len(self.dirinfo) :
    \A j \in 1..Len(self.dirinfo[i].val.files) :
      DictHas(self.tree, Append(self.dirinfo[i].key, self.dirinfo[i].val.files[j]))

\* dest/d/name, d given by its segments
DestPath(dest, d, name) == dest \o SelectSeq(d, LAMBDA x : x # "") \o <<name>>

DestDir(dest, d) == dest \o SelectSeq(d, LAMBDA x : x # "")

\* f holds under dest every directory and every file of self's directory
\* index, each file with the bytes of its tree key
Extracted(self, f, dest) ==
  \A i \in 1..Len(self.dirinfo) :
    \E item \in {self.dirinfo[i]} :
      /\ IsDir(f, DestDir(dest, item.key))
      /\ \A j \in 1..Len(item.val.dirs) :
           IsDir(f, DestPath(dest, item.key, item.val.dirs[j]))
      /\ \A j \in 1..Len(item.val.files) :
           /\ IsFile(f, DestPath(dest, item.key, item.val.files[j]))
           /\ f[DestPath(dest, item.key, item.val.files[j])].data
                = DictGet(self.tree, Append(item.key, item.val.files[j]))

\* C1: whenever the codec runs on bytes that do not start with the marker
\* (the empty buffer and a buffer holding the marker further on included),
\* the call fails with MissingHeaderException and decompression is not
\* reached.
C1_HeaderGate ==
  (result.steps # <<>> /\ ~StartsWith(result.content, Marker))
    => /\ result.status = "MissingHeaderException"
       /\ "decompress" \notin Range(result.steps)

C1_Witness ==
  /\ result.op = "construct"
  /\ ~StartsWith(result.content, Marker)
  /\ Contains(result.content, Marker)
  /\ result.status = "MissingHeaderException"

\* C2: opening marker + compress(serialize(doc)) succeeds, listobjects and
\* getDirList give the key sets of doc and getfile gives back the bytes of
\* every tree key, for every doc, the ones whose payload holds the marker
\* bytes included.
C2_RoundTrip ==
  \A d \in FullDocs :
    (result.op = "construct" /\ result.kind = "path" /\ result.content = Pack(d))
      => /\ result.status = "ok"
         /\ Range(DictKeys(pack.tree)) = DictKeySet(DictGet(d, "tree"))
         /\ Range(DictKeys(pack.dirinfo)) = DictKeySet(DictGet(d, "dirinfo"))
         /\ \A k \in DictKeySet(DictGet(d, "tree")) :
              GetFile(pack.tree, k) = [ok |-> TRUE, data |-> DictGet(DictGet(d, "tree"), k)]

\* C3: when extract(dest) returns on a self-consistent archive, dest holds
\* every directory of the index, every listed subdirectory and every listed
\* file with the bytes of its tree key; so does the temporary directory of
\* a StreamingAssetPack whose constructor returned.
C3_ExtractComplete ==
  /\ (result.op = "extract" /\ result.status = "ok" /\ Consistent(pack))
       => Extracted(pack, fs, Out)
  /\ (result.op = "streaming" /\ result.status = "ok" /\ Consistent(sp.assetpack))
       => Extracted(sp.assetpack, fs, TmpStream)

C3_Witness ==
  /\ result.op = "extract"
  /\ result.status = "ok"
  /\ Len(pack.dirinfo) = 3
  /\ Len(result.writes) = 3
  /\ fs[<<"out", "a", "c", "d">>].data = <<68, 68>>

\* the position in the directory index of the first item that lists a file
\* the tree lacks, and the position of that file in the item's list
MissingItem(self) ==
  CHOOSE i \in 1..Len(self.dirinfo) :
    /\ \E j \in 1..Len(self.dirinfo[i].val.files) :
         ~DictHas(self.tree, Append(self.dirinfo[i].key, self.dirinfo[i].val.files[j]))
    /\ \A h \in 1..(i - 1) : \A j \in 1..Len(self.dirinfo[h].val.files) :
         DictHas(self.tree, Append(self.dirinfo[h].key, self.dirinfo[h].val.files[j]))

MissingFile(self, i) ==
  CHOOSE j \in 1..Len(self.dirinfo[i].val.files) :
    /\ ~DictHas(self.tree, Append(self.dirinfo[i].key, self.dirinfo[i].val.files[j]))
    /\ \A h \in 1..(j - 1) :
         DictHas(self.tree, Append(self.dirinfo[i].key, self.dirinfo[i].val.files[h]))

\* the destinations of the files of items 1..i-1 and of files 1..j of item i
RECURSIVE FilesUpTo(_, _, _, _)
FilesUpTo(self, dest, i, j) ==
  IF i = 0 THEN <<>>
  ELSE FilesUpTo(self, dest, i - 1,
                 IF i = 1 THEN 0 ELSE Len(self.dirinfo[i - 1].val.files))
         \o [h \in 1..j |->
               DestPath(dest, self.dirinfo[i].key, self.dirinfo[i].val.files[h])]

\* C4: extract on an archive whose directory index names a file the tree
\* lacks fails with KeyError at the first such file: the items before it
\* are complete, exportfile was called on the files before it and on it, in
\* order, and on nothing after it, and the files written before it are
\* still there with their bytes.
C4_MissingAsset ==
  (result.op = "extract" /\ ~Consistent(pack))
    => \E i \in {MissingItem(pack)} : \E j \in {MissingFile(pack, i)} :
         /\ result.status = "KeyError"
         /\ result.done = i - 1
         /\ Len(sink.reports) = i - 1
         /\ result.writes = FilesUpTo(pack, Out, i, j)
         /\ \A h \in 1..(Len(result.writes) - 1) :
              /\ IsFile(fs, result.writes[h])
              /\ \E k \in DictKeySet(pack.tree) :
                   /\ Join(Out, k) = result.writes[h]
                   /\ fs[result.writes[h]].data = DictGet(pack.tree, k)

C4_Witness ==
  /\ result.op = "extract"
  /\ result.status = "KeyError"
  /\ Len(result.writes) = 2
  /\ Len(pack.dirinfo) = 2
  /\ Len(pack.dirinfo[1].val.files) = 3
  /\ IsFile(fs, <<"out", "a", "b">>)
  /\ fs[<<"out", "a", "b">>].data = <<77>>

\* C5: once a StreamingAssetPack has been closed explicitly, nothing of its
\* temporary directory exists.  (The other ways out of scope leave an
\* object nothing refers to, whose directory the finalizer of
\* TemporaryDirectory removes: TempDirFinalize.)
C5_ScopedCleanup ==
  sp.state = "closed" => \A q \in DOMAIN fs : ~IsUnder(q, TmpStream)

\* C6: when extract_tozip has returned or raised (success, an error of
\* extract, an error of the packaging), nothing of its temporary directory
\* exists.
C6_TozipReleased ==
  result.op = "extract_tozip" => \A q \in DOMAIN fs : ~IsUnder(q, TmpZip)

C6_Witness ==
  /\ result.op = "extract_tozip"
  /\ result.status = "KeyError"
  /\ result.held > 1
  /\ Len(result.writes) = 2

\* C7: an AssetPack can be constructed from an in-memory buffer holding a
\* well-formed archive, and reload() on it fails with ReloadUnsupported.
C7_ReloadUnsupported ==
  /\ (result.op = "construct" /\ result.kind = "bytesio"
        /\ Decode(result.content).status = "ok")
       => result.status = "ok"
  /\ (result.op = "reload" /\ origin = "bytesio")
       => result.status = "ReloadUnsupported"

\* C8: tree and dirinfo of the caller's AssetPack are always the pair
\* decoded by its last successful construction or reload.
C8_Lifecycle == HasPack => <<pack.tree, pack.dirinfo>> = decoded

\* C9: the k-th value the progress bar shows during extract is k, and when
\* extract returns the bar stands at its total.
C9_ProgressCount ==
  result.op = "extract"
    => /\ \A k \in 1..Len(sink.reports) : sink.reports[k] = k
       /\ result.status = "ok" => sink.n = sink.total

\* C10: an exportfile call that fails because the asset is absent from the
\* tree leaves the filesystem as it was.
C10_ExportLookupError ==
  [][(result'.op = "exportfile" /\ result'.status = "KeyError") => fs' = fs]_vars

====
